---- MODULE Spec2Model ----
(***************************************************************************)
(* Subscription reconciliation of controllers/payment.controller.js:       *)
(* createCheckoutSession, handleStripeWebhook, upgradeToYearly and         *)
(* manageSubscriptionPortal acting on the User documents (user.model.js)   *)
(* and on the billing provider (Stripe).                                   *)
(*                                                                         *)
(* Every request runs in a slot of Procs.  A handler is cut into one       *)
(* action per await: between two actions of one request any other request  *)
(* and the provider may act.                                               *)
(***************************************************************************)
EXTENDS Integers, Sequences, FiniteSets, TLC

(***************************************************************************)
(* Bounds of the model                                                     *)
(***************************************************************************)
\* current_period_end values the provider uses are 1..MaxPeriod (seconds)
MaxPeriod == 2
\* customers the provider will create before customers.create is refused
MaxCustomers == 2
\* the clock (new Date()) ticks MaxTicks times
MaxTicks == 1
\* SpecConc: the requests that may arrive between two moments with none in flight
MaxOverlap == 2

(***************************************************************************)
(* Values                                                                  *)
(***************************************************************************)
\* null / undefined of a string or reference valued field
NULL == "null"
\* a Date field that is null, and a falsy current_period_end
NoDate == 0

Procs == {"p1", "p2"}
UserIds == {"u1", "u2"}
\* an id that names no User document
MissingUser == "u_gone"
SubIds == {"sub_1", "sub_2"}
CustomerIds == <<"cus_1", "cus_2", "cus_3", "cus_4">>
Periods == 1..MaxPeriod

\* PlanTypes of constants/index.js as used by the controller and the schema
PlanTypes == [MONTHLY |-> "Monthly", YEARLY |-> "Yearly", FREE_TRIAL |-> "FreeTrial"]

\* HttpStatusCode members the controller uses; NoResponse: nothing sent yet
NoResponse == "none"
HttpStatusCode ==
    [OK |-> "OK", BAD_REQUEST |-> "BAD_REQUEST", NOT_FOUND |-> "NOT_FOUND",
     INTERNAL_SERVER_ERROR |-> "INTERNAL_SERVER_ERROR"]

\* subscription.status values of the provider that the schema's enum admits
StripeStatuses == {"active", "past_due"}

\* the billing fields of a User document
Fields ==
    {"stripeCustomerId", "stripeSubscriptionId", "subscriptionStatus",
     "currentPlanId", "currentPlanType", "subscriptionExpiresAt"}

\* the schema's defaults: a User document at account creation
userSchema ==
    [stripeCustomerId |-> NULL, stripeSubscriptionId |-> NULL,
     subscriptionStatus |-> NULL, currentPlanId |-> NULL,
     currentPlanType |-> NULL, subscriptionExpiresAt |-> NoDate]

\* new Date(seconds * 1000), as milliseconds
\* DateOfSeconds without the factor of line 148: seconds taken for milliseconds
SecondsAsDate(seconds) == seconds

DateOfSeconds(seconds) == seconds * 1000

(***************************************************************************)
(* The Plan collection.  plan_m2 is a second Monthly plan (a retired       *)
(* price); MissingPlan is an id with no document.                          *)
(***************************************************************************)
PlanIds == {"plan_m", "plan_m2", "plan_y"}
MissingPlan == "plan_gone"

Catalog ==
    [plan_m  |-> [type |-> PlanTypes.MONTHLY, stripePriceId |-> "price_m", isActive |-> TRUE],
     plan_m2 |-> [type |-> PlanTypes.MONTHLY, stripePriceId |-> "price_m2", isActive |-> FALSE],
     plan_y  |-> [type |-> PlanTypes.YEARLY, stripePriceId |-> "price_y", isActive |-> TRUE]]

\* a price of the provider that no Plan document carries
UnknownPrice == "price_x"

VARIABLES
    users,      \* the User collection: id -> billing fields
    plans,      \* the Plan collection: id -> Plan document
    subs,       \* the provider's subscriptions: id -> current snapshot
    customers,  \* the provider's customers: sequence of metadata.userId
    outbox,     \* the events the provider has emitted so far
    now,        \* the clock read by new Date(), in milliseconds
    rq,         \* the requests in flight: slot -> locals of the handler
    \* history, read by no handler:
    base,       \* the User collection when no request was in flight last
    since,      \* the requests that have arrived since then (to MaxOverlap + 1)
    detached,   \* user -> the subscription whose deletion was applied to the
                \* user's document, until a subscription is attached again
    replay,     \* the first delivery of the event being delivered again
    acked       \* the emitted events answered OK at least once

vars == <<users, plans, subs, customers, outbox, now, rq, base, since, detached, replay, acked>>

\* what no handler writes except where stated
history == <<base, since, detached, replay, acked>>

\* Plan.findById(id)
Plan_findById(id) == IF id \in DOMAIN plans THEN id ELSE NULL

\* Plan.findOne({ stripePriceId }): the plans carrying that price
Plan_findOneByPrice(price) == {id \in DOMAIN plans : plans[id].stripePriceId = price}

\* Plan_findOneYearly without the filter isActive: true
Plan_findOneYearlyInactiveToo == {id \in DOMAIN plans : plans[id].type = PlanTypes.YEARLY}

\* Plan.findOne({ type: YEARLY, isActive: true })
Plan_findOneYearly ==
    {id \in DOMAIN plans : plans[id].type = PlanTypes.YEARLY /\ plans[id].isActive}

\* User.findById(id)
User_findById(id) == IF id \in DOMAIN users THEN id ELSE NULL

\* the documents of collection coll that { stripeSubscriptionId: subId } matches
Matching(coll, subId) == {u \in DOMAIN coll : coll[u].stripeSubscriptionId = subId}

\* User_findOneBySub that falls back to a document when none matches
User_findOneBySubOrFirst(subId) ==
    IF Matching(users, subId) # {} THEN Matching(users, subId) ELSE {"u1"}

\* User.findOne({ stripeSubscriptionId }): the documents that match
User_findOneBySub(subId) == Matching(users, subId)

(***************************************************************************)
(* A request slot.  doc is the document as loaded, delta the paths the     *)
(* handler has modified (mongoose marks a path modified when the value     *)
(* assigned differs from the value loaded), subscription the snapshot      *)
(* retrieved, calls the gateway calls made, res the response sent by the   *)
(* handler and err the error thrown out of it.                             *)
(***************************************************************************)
NoEvent == [type |-> NULL]
NoSnapshot == [id |-> NULL]
NoDelta == [f \in {} |-> NULL]

Idle ==
    [pc |-> "idle", op |-> NULL, uid |-> NULL, doc |-> userSchema, delta |-> NoDelta,
     event |-> NoEvent, verified |-> FALSE, subscription |-> NoSnapshot, plan |-> NULL,
     customer |-> NULL, calls |-> {}, res |-> NoResponse, err |-> NoResponse]

\* the paths assigned a value different from the loaded one, with the value
ModifiedPaths(doc, assigned) ==
    LET mod == {f \in DOMAIN assigned : assigned[f] # doc[f]}
    IN  [f \in mod |-> assigned[f]]

\* user.save(): $set of the modified paths on the stored document
save(stored, delta) == [f \in Fields |-> IF f \in DOMAIN delta THEN delta[f] ELSE stored[f]]

\* a request arrives: the history variables
NoReplay == [event |-> NoEvent]

Arrival ==
    /\ base' = IF \A q \in Procs : rq[q].pc = "idle" THEN users ELSE base
    /\ since' = IF \A q \in Procs : rq[q].pc = "idle" THEN 1
                ELSE IF since <= MaxOverlap THEN since + 1 ELSE since
    /\ UNCHANGED <<detached, replay, acked>>

\* the handler sends a response and returns
Respond(r, status) == [r EXCEPT !.pc = "done", !.res = status]

\* an error leaves the handler: asyncHandler receives the rejection
Throw(r, status) == [r EXCEPT !.pc = "done", !.err = status]

(***************************************************************************)
(* Provider events (event.type and the fields of event.data.object the     *)
(* handler reads)                                                          *)
(***************************************************************************)
CheckoutCompleted(userId, planId, customer, subscription) ==
    [type |-> "checkout.session.completed", subscription |-> subscription,
     userId |-> userId, planId |-> planId, customer |-> customer]

InvoicePaid(subscription) ==
    [type |-> "invoice.payment_succeeded", subscription |-> subscription]

SubscriptionUpdated(id, status, periodEnd, items) ==
    [type |-> "customer.subscription.updated", id |-> id, status |-> status,
     current_period_end |-> periodEnd, items |-> items]

SubscriptionDeleted(id, periodEnd) ==
    [type |-> "customer.subscription.deleted", id |-> id, current_period_end |-> periodEnd]

OtherEvent == [type |-> "customer.created"]

\* items.data of a snapshot, as the sequence of price ids
ItemLists == {<<>>, <<"price_m">>, <<UnknownPrice>>, <<"price_y", "price_m">>}

\* the events the provider may send about the users U and the subscriptions S
EventsOf(U, S) ==
    {CheckoutCompleted(u, pl, c, s) :
        u \in U \cup {MissingUser}, pl \in {"plan_m", "plan_y", MissingPlan},
        c \in {CustomerIds[1], CustomerIds[2]}, s \in S \cup {NULL}}
    \cup {InvoicePaid(s) : s \in S \cup {NULL}}
    \cup {SubscriptionUpdated(s, st, pe, it) :
            s \in S, st \in StripeStatuses, pe \in Periods, it \in ItemLists}
    \cup {SubscriptionDeleted(s, pe) : s \in S, pe \in Periods \cup {NoDate}}
    \cup {OtherEvent}

(***************************************************************************)
(* handleStripeWebhook                                                     *)
(***************************************************************************)
\* constructEventFails with a catch block that answers OK
constructEventFailsAnswersOK(p) ==
    /\ rq[p].pc = "idle"
    /\ rq' = [rq EXCEPT ![p] =
            Respond([Idle EXCEPT !.op = "handleStripeWebhook"], HttpStatusCode.OK)]
    /\ UNCHANGED <<users, plans, subs, customers, outbox, now>>
    /\ Arrival

\* stripe.webhooks.constructEvent throws: the catch block of lines 123-126
constructEventFails(p) ==
    /\ rq[p].pc = "idle"
    /\ rq' = [rq EXCEPT ![p] =
            Respond([Idle EXCEPT !.op = "handleStripeWebhook"], HttpStatusCode.BAD_REQUEST)]
    /\ UNCHANGED <<users, plans, subs, customers, outbox, now>>
    /\ Arrival

\* the locals once constructEvent has returned the event
Verified(ev) == [Idle EXCEPT !.op = "handleStripeWebhook", !.event = ev, !.verified = TRUE]

\* the event's case awaits something
Awaits(ev) ==
    \/ ev.type \in {"checkout.session.completed", "invoice.payment_succeeded"}
       /\ ev.subscription # NULL
    \/ ev.type \in {"customer.subscription.updated", "customer.subscription.deleted"}

\* handleStripeWebhook with a default case that throws instead of falling
\* through to line 218
handleUnknownThrows(p, ev) ==
    /\ rq[p].pc = "idle"
    /\ ~Awaits(ev)
    /\ rq' = [rq EXCEPT ![p] = Throw(Verified(ev), "Error")]
    /\ UNCHANGED <<users, plans, subs, customers, outbox, now>>
    /\ Arrival

\* a verified event whose case awaits nothing (no subscription attached, or the
\* default case): the switch falls through to the response of line 218
handleStripeWebhook(p, ev) ==
    /\ rq[p].pc = "idle"
    /\ ~Awaits(ev)
    /\ rq' = [rq EXCEPT ![p] = Respond(Verified(ev), HttpStatusCode.OK)]
    /\ UNCHANGED <<users, plans, subs, customers, outbox, now>>
    /\ Arrival

\* stripe.subscriptions.retrieve(id): the provider's current snapshot
Snapshot(id) ==
    [id |-> id, status |-> subs[id].status,
     current_period_end |-> subs[id].current_period_end, items |-> subs[id].items]

\* cases 'checkout.session.completed' and 'invoice.payment_succeeded' up to their
\* first await, stripe.subscriptions.retrieve(...)
retrieveSubscription(p, ev) ==
    /\ rq[p].pc = "idle"
    /\ ev.type \in {"checkout.session.completed", "invoice.payment_succeeded"}
    /\ ev.subscription # NULL
    /\ rq' = [rq EXCEPT ![p] =
            [Verified(ev) EXCEPT
                !.subscription = Snapshot(ev.subscription),
                !.calls = {"subscriptions.retrieve"},
                !.pc = IF ev.type = "checkout.session.completed"
                       THEN "checkout" ELSE "invoice"]]
    /\ UNCHANGED <<users, plans, subs, customers, outbox, now>>
    /\ Arrival

\* the retrieval rejects: nothing in handleStripeWebhook catches it
retrieveSubscriptionFails(p, ev) ==
    /\ rq[p].pc = "idle"
    /\ ev.type \in {"checkout.session.completed", "invoice.payment_succeeded"}
    /\ ev.subscription # NULL
    /\ rq' = [rq EXCEPT ![p] =
            Throw([Verified(ev) EXCEPT !.calls = {"subscriptions.retrieve"}], "Error")]
    /\ UNCHANGED <<users, plans, subs, customers, outbox, now>>
    /\ Arrival

\* CheckoutAssignments without line 147 (subscriptionStatus)
CheckoutWithoutStatus(session, subscription, planId) ==
    [stripeSubscriptionId |-> subscription.id,
     stripeCustomerId |-> session.customer,
     currentPlanId |-> planId,
     currentPlanType |-> plans[planId].type,
     subscriptionExpiresAt |-> DateOfSeconds(subscription.current_period_end)]

\* the assignments of case 'checkout.session.completed'
CheckoutAssignments(session, subscription, planId) ==
    [stripeSubscriptionId |-> subscription.id,
     stripeCustomerId |-> session.customer,
     currentPlanId |-> planId,
     currentPlanType |-> plans[planId].type,
     subscriptionStatus |-> subscription.status,
     subscriptionExpiresAt |-> DateOfSeconds(subscription.current_period_end)]

\* case 'checkout.session.completed': User.findById, Plan.findById, assignments
checkoutSessionCompleted(p) ==
    /\ rq[p].pc = "checkout"
    /\ LET session == rq[p].event
           user == User_findById(session.userId)
           plan == Plan_findById(session.planId)
       IN  rq' = [rq EXCEPT ![p] =
                IF user # NULL /\ plan # NULL
                THEN [@ EXCEPT !.uid = user, !.doc = users[user], !.plan = plan,
                               !.delta = ModifiedPaths(users[user],
                                   CheckoutAssignments(session, rq[p].subscription, plan)),
                               !.pc = "save"]
                ELSE Respond(@, HttpStatusCode.OK)]
    /\ UNCHANGED <<users, plans, subs, customers, now, outbox>>
    /\ UNCHANGED history

\* InvoiceAssignments with a further assignment, of currentPlanType
InvoiceTouchesPlanType(subscription) ==
    [subscriptionStatus |-> subscription.status,
     subscriptionExpiresAt |-> DateOfSeconds(subscription.current_period_end),
     currentPlanType |-> NULL]

\* InvoiceAssignments without line 169 (subscriptionExpiresAt)
InvoiceStatusOnly(subscription) ==
    [subscriptionStatus |-> subscription.status]

\* the assignments of case 'invoice.payment_succeeded'
InvoiceAssignments(subscription) ==
    [subscriptionStatus |-> subscription.status,
     subscriptionExpiresAt |-> DateOfSeconds(subscription.current_period_end)]

\* case 'invoice.payment_succeeded': User.findOne by subscription id, assignments
invoicePaymentSucceeded(p) ==
    /\ rq[p].pc = "invoice"
    /\ LET found == User_findOneBySub(rq[p].subscription.id)
       IN  IF found = {}
           THEN rq' = [rq EXCEPT ![p] = Respond(@, HttpStatusCode.OK)]
           ELSE \E user \in found :
                  rq' = [rq EXCEPT ![p] =
                      [@ EXCEPT !.uid = user, !.doc = users[user],
                                !.delta = ModifiedPaths(users[user],
                                              InvoiceAssignments(rq[p].subscription)),
                                !.pc = "save"]]
    /\ UNCHANGED <<users, plans, subs, customers, now, outbox>>
    /\ UNCHANGED history

\* UpdatedAssignments without lines 190-191 (currentPlanId, currentPlanType)
UpdatedRefreshOnly(updatedSubscription, newPlan) ==
    [subscriptionStatus |-> updatedSubscription.status,
     subscriptionExpiresAt |-> DateOfSeconds(updatedSubscription.current_period_end)]

\* the assignments of case 'customer.subscription.updated'; newPlan is NULL when
\* the event has no item or Plan.findOne finds no plan with the first item's price
UpdatedAssignments(updatedSubscription, newPlan) ==
    LET refresh == [subscriptionStatus |-> updatedSubscription.status,
                    subscriptionExpiresAt |->
                        DateOfSeconds(updatedSubscription.current_period_end)]
    IN  IF newPlan = NULL THEN refresh
        ELSE [subscriptionStatus |-> refresh.subscriptionStatus,
              subscriptionExpiresAt |-> refresh.subscriptionExpiresAt,
              currentPlanId |-> newPlan,
              currentPlanType |-> plans[newPlan].type]

\* NewPlanOf reading the last item instead of items.data[0]
NewPlanOfLastItem(updatedSubscription) ==
    IF Len(updatedSubscription.items) > 0
       /\ Plan_findOneByPrice(updatedSubscription.items[Len(updatedSubscription.items)]) # {}
    THEN Plan_findOneByPrice(updatedSubscription.items[Len(updatedSubscription.items)])
    ELSE {NULL}

\* the plans Plan.findOne({ stripePriceId: items.data[0].price.id }) may return
NewPlanOf(updatedSubscription) ==
    IF Len(updatedSubscription.items) > 0
       /\ Plan_findOneByPrice(updatedSubscription.items[1]) # {}
    THEN Plan_findOneByPrice(updatedSubscription.items[1])
    ELSE {NULL}

\* case 'customer.subscription.updated' up to the save: User.findOne, the
\* assignments, Plan.findOne
customerSubscriptionUpdated(p, updatedSubscription) ==
    /\ rq[p].pc = "idle"
    /\ updatedSubscription.type = "customer.subscription.updated"
    /\ LET r == Verified(updatedSubscription)
           found == User_findOneBySub(updatedSubscription.id)
       IN  IF found = {}
           THEN rq' = [rq EXCEPT ![p] = Respond(r, HttpStatusCode.OK)]
           ELSE \E userUpdated \in found, newPlan \in NewPlanOf(updatedSubscription) :
                  rq' = [rq EXCEPT ![p] =
                      [r EXCEPT !.uid = userUpdated, !.doc = users[userUpdated],
                                !.plan = newPlan,
                                !.delta = ModifiedPaths(users[userUpdated],
                                    UpdatedAssignments(updatedSubscription, newPlan)),
                                !.pc = "save"]]
    /\ UNCHANGED <<users, plans, subs, customers, outbox, now>>
    /\ Arrival

\* DeletedAssignments without line 204 (stripeSubscriptionId = null)
DeletedKeepsSubscription(deletedSubscription, clock) ==
    [currentPlanId |-> NULL,
     currentPlanType |-> NULL,
     subscriptionStatus |-> "canceled",
     subscriptionExpiresAt |->
        IF deletedSubscription.current_period_end # NoDate
        THEN DateOfSeconds(deletedSubscription.current_period_end)
        ELSE clock]

\* DeletedAssignments without the fallback of line 208 to new Date()
DeletedWithoutFallback(deletedSubscription, clock) ==
    [stripeSubscriptionId |-> NULL,
     currentPlanId |-> NULL,
     currentPlanType |-> NULL,
     subscriptionStatus |-> "canceled",
     subscriptionExpiresAt |-> DateOfSeconds(deletedSubscription.current_period_end)]

\* the assignments of case 'customer.subscription.deleted'
DeletedAssignments(deletedSubscription, clock) ==
    [stripeSubscriptionId |-> NULL,
     currentPlanId |-> NULL,
     currentPlanType |-> NULL,
     subscriptionStatus |-> "canceled",
     subscriptionExpiresAt |->
        IF deletedSubscription.current_period_end # NoDate
        THEN DateOfSeconds(deletedSubscription.current_period_end)
        ELSE clock]

\* case 'customer.subscription.deleted' up to the save
customerSubscriptionDeleted(p, deletedSubscription) ==
    /\ rq[p].pc = "idle"
    /\ deletedSubscription.type = "customer.subscription.deleted"
    /\ LET r == Verified(deletedSubscription)
           found == User_findOneBySub(deletedSubscription.id)
       IN  IF found = {}
           THEN rq' = [rq EXCEPT ![p] = Respond(r, HttpStatusCode.OK)]
           ELSE \E userDeleted \in found :
                  rq' = [rq EXCEPT ![p] =
                      [r EXCEPT !.uid = userDeleted, !.doc = users[userDeleted],
                                !.delta = ModifiedPaths(users[userDeleted],
                                    DeletedAssignments(deletedSubscription, now)),
                                !.pc = "save"]]
    /\ UNCHANGED <<users, plans, subs, customers, outbox, now>>
    /\ Arrival

\* webhookSave that does not wait for the write: the response without it
webhookAckWithoutSave(p) ==
    /\ rq[p].pc = "save"
    /\ rq' = [rq EXCEPT ![p] = Respond(@, HttpStatusCode.OK)]
    /\ UNCHANGED <<users, plans, subs, customers, now, outbox>>
    /\ UNCHANGED history

\* await user.save(...) of a webhook case, then res.status(OK).send(...)
webhookSave(p) ==
    /\ rq[p].pc = "save"
    /\ users' = [users EXCEPT ![rq[p].uid] = save(@, rq[p].delta)]
    /\ rq' = [rq EXCEPT ![p] = Respond(@, HttpStatusCode.OK)]
    /\ detached' = [detached EXCEPT ![rq[p].uid] =
            IF rq[p].event.type = "customer.subscription.deleted" THEN rq[p].event.id
            ELSE IF users'[rq[p].uid].stripeSubscriptionId # NULL THEN NULL
            ELSE @]
    /\ UNCHANGED <<plans, subs, customers, outbox, now, base, since, replay, acked>>

\* the save rejects: nothing in handleStripeWebhook catches it
webhookSaveFails(p) ==
    /\ rq[p].pc = "save"
    /\ rq' = [rq EXCEPT ![p] = Throw(@, "Error")]
    /\ UNCHANGED <<users, plans, subs, customers, now, outbox>>
    /\ UNCHANGED history

\* the request is over: its slot is free again
Finish(p) ==
    /\ rq[p].pc = "done"
    /\ rq' = [rq EXCEPT ![p] = Idle]
    /\ base' = IF \A q \in Procs \ {p} : rq[q].pc = "idle" THEN users ELSE base
    /\ since' = IF \A q \in Procs \ {p} : rq[q].pc = "idle" THEN 0 ELSE since
    /\ acked' = IF rq[p].res = HttpStatusCode.OK /\ rq[p].event \in outbox
                THEN acked \cup {rq[p].event} ELSE acked
    /\ replay' = NoReplay
    /\ UNCHANGED <<users, plans, subs, customers, outbox, now, detached>>

(***************************************************************************)
(* createCheckoutSession                                                   *)
(***************************************************************************)
\* req.user (lines 50, 231, 290): the document of the session's user as the
\* session middleware loaded it when the request arrived, with currentPlanId
\* standing for the referenced Plan
req_user(userId) == users[userId]

\* lines 38-53: the planId and plan checks, then the branch on stripeCustomerId
createCheckoutSession(p, userId, planId) ==
    /\ rq[p].pc = "idle"
    /\ LET user == req_user(userId)
           r == [Idle EXCEPT !.op = "createCheckoutSession", !.uid = userId,
                             !.doc = user, !.plan = planId,
                             !.customer = user.stripeCustomerId]
           plan == Plan_findById(planId)
       IN  rq' = [rq EXCEPT ![p] =
                IF planId = NULL THEN Throw(r, HttpStatusCode.BAD_REQUEST)
                ELSE IF plan = NULL \/ ~plans[planId].isActive
                     THEN Throw(r, HttpStatusCode.BAD_REQUEST)
                ELSE IF user.stripeCustomerId = NULL
                     THEN [r EXCEPT !.pc = "customers.create"]
                ELSE [r EXCEPT !.pc = "sessions.create"]]
    /\ UNCHANGED <<users, plans, subs, customers, outbox, now>>
    /\ Arrival

\* await stripe.customers.create(...), then the two assignments of the id
customersCreate(p) ==
    /\ rq[p].pc = "customers.create"
    /\ Len(customers) < MaxCustomers
    /\ customers' = Append(customers, rq[p].uid)
    /\ LET id == CustomerIds[Len(customers) + 1]
       IN  rq' = [rq EXCEPT ![p] =
                [@ EXCEPT !.customer = id,
                          !.calls = @ \cup {"customers.create"},
                          !.delta = ModifiedPaths(rq[p].doc, [stripeCustomerId |-> id]),
                          !.pc = "user.save"]]
    /\ UNCHANGED <<users, plans, subs, now, outbox>>
    /\ UNCHANGED history

\* the creation rejects: it is outside the try block
customersCreateFails(p) ==
    /\ rq[p].pc = "customers.create"
    /\ rq' = [rq EXCEPT ![p] =
            Throw([@ EXCEPT !.calls = @ \cup {"customers.create"}], "Error")]
    /\ UNCHANGED <<users, plans, subs, customers, now, outbox>>
    /\ UNCHANGED history

\* checkoutSave without the write of line 63
checkoutSaveSkipped(p) ==
    /\ rq[p].pc = "user.save"
    /\ rq' = [rq EXCEPT ![p] = [@ EXCEPT !.pc = "sessions.create"]]
    /\ UNCHANGED <<users, plans, subs, customers, now, outbox>>
    /\ UNCHANGED history

\* await user.save(...) of the customer id
checkoutSave(p) ==
    /\ rq[p].pc = "user.save"
    /\ users' = [users EXCEPT ![rq[p].uid] = save(@, rq[p].delta)]
    /\ rq' = [rq EXCEPT ![p] = [@ EXCEPT !.pc = "sessions.create"]]
    /\ UNCHANGED <<plans, subs, customers, now, outbox>>
    /\ UNCHANGED history

checkoutSaveFails(p) ==
    /\ rq[p].pc = "user.save"
    /\ rq' = [rq EXCEPT ![p] = Throw(@, "Error")]
    /\ UNCHANGED <<users, plans, subs, customers, now, outbox>>
    /\ UNCHANGED history

\* await stripe.checkout.sessions.create(...), then the OK response
sessionsCreate(p) ==
    /\ rq[p].pc = "sessions.create"
    /\ rq' = [rq EXCEPT ![p] =
            Respond([@ EXCEPT !.calls = @ \cup {"sessions.create"}], HttpStatusCode.OK)]
    /\ UNCHANGED <<users, plans, subs, customers, now, outbox>>
    /\ UNCHANGED history

\* the catch block: ApiError(INTERNAL_SERVER_ERROR)
sessionsCreateFails(p) ==
    /\ rq[p].pc = "sessions.create"
    /\ rq' = [rq EXCEPT ![p] =
            Throw([@ EXCEPT !.calls = @ \cup {"sessions.create"}],
                  HttpStatusCode.INTERNAL_SERVER_ERROR)]
    /\ UNCHANGED <<users, plans, subs, customers, now, outbox>>
    /\ UNCHANGED history

(***************************************************************************)
(* upgradeToYearly                                                         *)
(***************************************************************************)
\* line 233 without its test of subscriptionStatus
UpgradeRefusedIgnoringStatus(user) ==
    \/ user.stripeSubscriptionId = NULL
    \/ user.currentPlanType # PlanTypes.MONTHLY

\* the condition of line 233
UpgradeRefused(user) ==
    \/ user.stripeSubscriptionId = NULL
    \/ user.subscriptionStatus # "active"
    \/ user.currentPlanType # PlanTypes.MONTHLY

\* lines 231-247: the precondition, then the yearly plan and its price
upgradeToYearly(p, userId) ==
    /\ rq[p].pc = "idle"
    /\ LET user == req_user(userId)
           r == [Idle EXCEPT !.op = "upgradeToYearly", !.uid = userId, !.doc = user]
       IN  IF UpgradeRefused(user)
           THEN rq' = [rq EXCEPT ![p] = Throw(r, HttpStatusCode.BAD_REQUEST)]
           ELSE IF Plan_findOneYearly = {}
           THEN rq' = [rq EXCEPT ![p] = Throw(r, HttpStatusCode.NOT_FOUND)]
           ELSE \E yearlyPlan \in Plan_findOneYearly :
                  rq' = [rq EXCEPT ![p] =
                      IF plans[yearlyPlan].stripePriceId = NULL
                      THEN Throw(r, HttpStatusCode.INTERNAL_SERVER_ERROR)
                      ELSE [r EXCEPT !.plan = yearlyPlan, !.pc = "subscriptions.retrieve"]]
    /\ UNCHANGED <<users, plans, subs, customers, outbox, now>>
    /\ Arrival

\* user.currentPlanId.stripePriceId
CurrentPriceOf(user) ==
    IF user.currentPlanId \in DOMAIN plans THEN plans[user.currentPlanId].stripePriceId
    ELSE NULL

\* items.data.find(item => item.price.id === price): the index of the item, 0 if none
FindItem(items, price) ==
    IF \E i \in 1..Len(items) : items[i] = price
    THEN CHOOSE i \in 1..Len(items) :
            items[i] = price /\ \A j \in 1..(i - 1) : items[j] # price
    ELSE 0

\* await stripe.subscriptions.retrieve(user.stripeSubscriptionId), then the find
upgradeRetrieve(p) ==
    /\ rq[p].pc = "subscriptions.retrieve"
    /\ LET id == rq[p].doc.stripeSubscriptionId
           snap == [id |-> id, status |-> subs[id].status,
                    current_period_end |-> subs[id].current_period_end,
                    items |-> subs[id].items]
           r == [rq[p] EXCEPT !.subscription = snap,
                              !.calls = @ \cup {"subscriptions.retrieve"}]
       IN  rq' = [rq EXCEPT ![p] =
                IF FindItem(snap.items, CurrentPriceOf(rq[p].doc)) = 0
                THEN Throw(r, HttpStatusCode.INTERNAL_SERVER_ERROR)
                ELSE [r EXCEPT !.pc = "subscriptions.update"]]
    /\ UNCHANGED <<users, plans, subs, customers, now, outbox>>
    /\ UNCHANGED history

\* the catch block: ApiError(INTERNAL_SERVER_ERROR)
upgradeRetrieveFails(p) ==
    /\ rq[p].pc = "subscriptions.retrieve"
    /\ rq' = [rq EXCEPT ![p] =
            Throw([@ EXCEPT !.calls = @ \cup {"subscriptions.retrieve"}],
                  HttpStatusCode.INTERNAL_SERVER_ERROR)]
    /\ UNCHANGED <<users, plans, subs, customers, now, outbox>>
    /\ UNCHANGED history

\* await stripe.subscriptions.update(...): the provider puts the yearly price on
\* the item named by its id, then the OK response
upgradeUpdate(p) ==
    /\ rq[p].pc = "subscriptions.update"
    /\ LET id == rq[p].doc.stripeSubscriptionId
           item == FindItem(rq[p].subscription.items, CurrentPriceOf(rq[p].doc))
       IN  subs' = [subs EXCEPT ![id].items =
                [i \in 1..Len(@) |->
                    IF i = item THEN plans[rq[p].plan].stripePriceId ELSE @[i]]]
    /\ rq' = [rq EXCEPT ![p] =
            Respond([@ EXCEPT !.calls = @ \cup {"subscriptions.update"}], HttpStatusCode.OK)]
    /\ UNCHANGED <<users, plans, customers, now, outbox>>
    /\ UNCHANGED history

upgradeUpdateFails(p) ==
    /\ rq[p].pc = "subscriptions.update"
    /\ rq' = [rq EXCEPT ![p] =
            Throw([@ EXCEPT !.calls = @ \cup {"subscriptions.update"}],
                  HttpStatusCode.INTERNAL_SERVER_ERROR)]
    /\ UNCHANGED <<users, plans, subs, customers, now, outbox>>
    /\ UNCHANGED history

(***************************************************************************)
(* manageSubscriptionPortal                                                *)
(***************************************************************************)
manageSubscriptionPortal(p, userId) ==
    /\ rq[p].pc = "idle"
    /\ LET user == req_user(userId)
           r == [Idle EXCEPT !.op = "manageSubscriptionPortal", !.uid = userId,
                             !.doc = user, !.customer = user.stripeCustomerId]
       IN  rq' = [rq EXCEPT ![p] =
                IF user.stripeCustomerId = NULL
                THEN Throw(r, HttpStatusCode.BAD_REQUEST)
                ELSE [r EXCEPT !.pc = "billingPortal.create"]]
    /\ UNCHANGED <<users, plans, subs, customers, outbox, now>>
    /\ Arrival

\* await stripe.billingPortal.sessions.create(...): the OK response, or the catch
portalCreate(p) ==
    /\ rq[p].pc = "billingPortal.create"
    /\ \E ok \in BOOLEAN :
         rq' = [rq EXCEPT ![p] =
             IF ok
             THEN Respond([@ EXCEPT !.calls = @ \cup {"billingPortal.create"}],
                          HttpStatusCode.OK)
             ELSE Throw([@ EXCEPT !.calls = @ \cup {"billingPortal.create"}],
                        HttpStatusCode.INTERNAL_SERVER_ERROR)]
    /\ UNCHANGED <<users, plans, subs, customers, now, outbox>>
    /\ UNCHANGED history

(***************************************************************************)
(* The environment: the provider's subscriptions change, the clock ticks   *)
(***************************************************************************)
\* what the provider sends about subscription s as it is now
UpdatedNow(s) ==
    SubscriptionUpdated(s, subs[s].status, subs[s].current_period_end, subs[s].items)

\* a renewal: the period end moves on and the subscription is active; with
\* notify the provider emits the events of it
ProviderRenews(s, notify) ==
    /\ subs[s].current_period_end < MaxPeriod
    /\ subs' = [subs EXCEPT ![s].current_period_end = @ + 1, ![s].status = "active"]
    /\ outbox' = IF notify THEN outbox \cup {InvoicePaid(s), UpdatedNow(s)'} ELSE outbox
    /\ UNCHANGED <<users, plans, customers, now, rq>>
    /\ UNCHANGED history

\* a payment fails
ProviderPaymentFails(s, notify) ==
    /\ subs[s].status = "active"
    /\ subs' = [subs EXCEPT ![s].status = "past_due"]
    /\ outbox' = IF notify THEN outbox \cup {UpdatedNow(s)'} ELSE outbox
    /\ UNCHANGED <<users, plans, customers, now, rq>>
    /\ UNCHANGED history

Tick ==
    /\ now <= MaxTicks
    /\ now' = now + 1
    /\ UNCHANGED <<users, plans, subs, customers, outbox, rq>>
    /\ UNCHANGED history

(***************************************************************************)
(* Specifications                                                          *)
(***************************************************************************)
Init ==
    /\ users = [u \in UserIds |-> userSchema]
    /\ plans = Catalog
    /\ subs = [s \in SubIds |->
                [status |-> "active", current_period_end |-> 1,
                 items |-> IF s = "sub_1" THEN <<"price_m">> ELSE <<"price_y">>]]
    /\ customers = <<>>
    /\ outbox = {}
    /\ now = 1
    /\ rq = [p \in Procs |-> Idle]
    /\ base = [u \in UserIds |-> userSchema]
    /\ since = 0
    /\ detached = [u \in UserIds |-> NULL]
    /\ replay = NoReplay
    /\ acked = {}

\* a step of a provider event being handled in slot p
WebhookStep(p) ==
    \/ checkoutSessionCompleted(p)
    \/ invoicePaymentSucceeded(p)
    \/ webhookSave(p)
    \/ webhookSaveFails(p)

\* a step of a createCheckoutSession request in slot p
CheckoutStep(p) ==
    \/ customersCreate(p)
    \/ customersCreateFails(p)
    \/ checkoutSave(p)
    \/ checkoutSaveFails(p)
    \/ sessionsCreate(p)
    \/ sessionsCreateFails(p)

\* a step of an upgradeToYearly request in slot p
UpgradeStep(p) ==
    \/ upgradeRetrieve(p)
    \/ upgradeRetrieveFails(p)
    \/ upgradeUpdate(p)
    \/ upgradeUpdateFails(p)

\* a step of a request in flight in slot p
Step(p) ==
    \/ WebhookStep(p)
    \/ CheckoutStep(p)
    \/ UpgradeStep(p)
    \/ portalCreate(p)
    \/ Finish(p)

\* a provider event of E arrives in slot p
Deliver(p, E) ==
    \/ constructEventFails(p)
    \/ \E ev \in E : handleStripeWebhook(p, ev)
    \/ \E ev \in E : retrieveSubscription(p, ev)
    \/ \E ev \in E : retrieveSubscriptionFails(p, ev)
    \/ \E ev \in E : customerSubscriptionUpdated(p, ev)
    \/ \E ev \in E : customerSubscriptionDeleted(p, ev)

\* a request of a user of U arrives in slot p
Request(p, U) ==
    \/ \E u \in U, planId \in {"plan_m", "plan_m2", "plan_y", MissingPlan, NULL} :
            createCheckoutSession(p, u, planId)
    \/ \E u \in U : upgradeToYearly(p, u)
    \/ \E u \in U : manageSubscriptionPortal(p, u)

Environment ==
    \/ ProviderRenews("sub_1", FALSE)
    \/ ProviderPaymentFails("sub_1", FALSE)

\* one request at a time, of user u1, any event
Next ==
    \/ Deliver("p1", EventsOf({"u1"}, SubIds))
    \/ Request("p1", {"u1"})
    \/ Step("p1")
    \/ Environment

Spec == Init /\ [][Next]_vars

\* the events of the races: about user u1 and subscription sub_1
RaceEvents ==
    {CheckoutCompleted("u1", "plan_m", c, "sub_1") : c \in {CustomerIds[1], CustomerIds[2]}}
    \cup {InvoicePaid("sub_1"), SubscriptionDeleted("sub_1", MaxPeriod),
          SubscriptionUpdated("sub_1", "active", 1, <<"price_m2">>), OtherEvent}

\* requests overlap in the two slots: the requests of user u1 and the events of
\* RaceEvents, at most MaxOverlap of them between two moments with none in flight
NextConc ==
    \/ \E p \in Procs, ev \in RaceEvents : since < MaxOverlap /\ handleStripeWebhook(p, ev)
    \/ \E p \in Procs, ev \in RaceEvents : since < MaxOverlap /\ retrieveSubscription(p, ev)
    \/ \E p \in Procs, ev \in RaceEvents :
            since < MaxOverlap /\ customerSubscriptionUpdated(p, ev)
    \/ \E p \in Procs, ev \in RaceEvents :
            since < MaxOverlap /\ customerSubscriptionDeleted(p, ev)
    \/ \E p \in Procs : since < MaxOverlap /\ createCheckoutSession(p, "u1", "plan_m")
    \/ \E p \in Procs : since < MaxOverlap /\ upgradeToYearly(p, "u1")
    \/ \E p \in Procs : since < MaxOverlap /\ manageSubscriptionPortal(p, "u1")
    \/ \E p \in Procs : Step(p)
    \/ ProviderPaymentFails("sub_1", FALSE)

SpecConc == Init /\ [][NextConc]_vars

\* the provider delivers once more the event that slot p has just answered OK
Redelivery(p) ==
    /\ rq[p].pc = "done"
    /\ rq[p].op = "handleStripeWebhook"
    /\ rq[p].res = HttpStatusCode.OK
    /\ replay = NoReplay
    /\ replay' = [event |-> rq[p].event, subscription |-> rq[p].subscription,
                  users |-> users]
    /\ rq' = [rq EXCEPT ![p] = Idle]
    /\ base' = IF \A q \in Procs \ {p} : rq[q].pc = "idle" THEN users ELSE base
    /\ since' = IF \A q \in Procs \ {p} : rq[q].pc = "idle" THEN 0 ELSE since
    /\ acked' = IF rq[p].event \in outbox THEN acked \cup {rq[p].event} ELSE acked
    /\ UNCHANGED <<users, plans, subs, customers, outbox, now, detached>>

\* the events of the redeliveries: about user u1 and subscription sub_1
ReplayEvents == EventsOf({"u1"}, {"sub_1"})

\* one event at a time; an event answered OK may be delivered once more, and
\* is then the next event to arrive
NextReplay ==
    \/ Deliver("p1", IF replay = NoReplay THEN ReplayEvents ELSE {replay.event})
    \/ WebhookStep("p1")
    \/ Finish("p1")
    \/ Redelivery("p1")
    \/ Environment
    \/ Tick

SpecReplay == Init /\ [][NextReplay]_vars

\* the provider has created subscription s: its checkout event is out
Created(s) ==
    \E e \in outbox : e.type = "checkout.session.completed" /\ e.subscription = s

\* the user pays in the checkout session of a customer created for u: the
\* provider creates subscription s and sends the session's event and the first
\* invoice's
ProviderCompletesCheckout(u, planId, s) ==
    /\ ~Created(s)
    /\ \E i \in 1..Len(customers) :
          /\ customers[i] = u
          /\ outbox' = outbox \cup {CheckoutCompleted(u, planId, CustomerIds[i], s),
                                    InvoicePaid(s)}
    /\ UNCHANGED <<users, plans, subs, customers, now, rq>>
    /\ UNCHANGED history

\* the provider sends what happens to sub_1, and delivers each event it has
\* sent any number of times, in any order
NextProvider ==
    \/ createCheckoutSession("p1", "u1", "plan_m")
    \/ CheckoutStep("p1")
    \/ ProviderCompletesCheckout("u1", "plan_m", "sub_1")
    \/ Created("sub_1") /\ ProviderRenews("sub_1", TRUE)
    \/ Created("sub_1") /\ ProviderPaymentFails("sub_1", TRUE)
    \/ \E ev \in outbox : retrieveSubscription("p1", ev)
    \/ \E ev \in outbox : retrieveSubscriptionFails("p1", ev)
    \/ \E ev \in outbox : customerSubscriptionUpdated("p1", ev)
    \/ WebhookStep("p1")
    \/ Finish("p1")

SpecProvider == Init /\ [][NextProvider]_vars

\* the Plan collections of the upgrades: the catalog, the catalog with its
\* Yearly plan inactive, the catalog with a Yearly plan that has no price
Catalogs ==
    {Catalog,
     [Catalog EXCEPT !["plan_y"].isActive = FALSE],
     [Catalog EXCEPT !["plan_y"].stripePriceId = NULL]}

InitCatalog ==
    /\ users = [u \in UserIds |-> userSchema]
    /\ plans \in Catalogs
    /\ subs = [s \in SubIds |->
                [status |-> "active", current_period_end |-> 1,
                 items |-> IF s = "sub_1" THEN <<"price_m">> ELSE <<"price_y">>]]
    /\ customers = <<>>
    /\ outbox = {}
    /\ now = 1
    /\ rq = [p \in Procs |-> Idle]
    /\ base = [u \in UserIds |-> userSchema]
    /\ since = 0
    /\ detached = [u \in UserIds |-> NULL]
    /\ replay = NoReplay
    /\ acked = {}

\* the events that put u1 on a plan and a subscription, and change its status
UpgradeEvents ==
    {CheckoutCompleted("u1", pl, CustomerIds[1], s) : pl \in {"plan_m", "plan_y"}, s \in SubIds}
    \cup {InvoicePaid("sub_1")}
    \cup {SubscriptionUpdated("sub_1", st, 1, <<"price_m">>) : st \in StripeStatuses}

\* one request at a time: the events of UpgradeEvents and the upgrades of u1,
\* over each Plan collection of Catalogs
NextCatalog ==
    \/ \E ev \in UpgradeEvents : retrieveSubscription("p1", ev)
    \/ \E ev \in UpgradeEvents : customerSubscriptionUpdated("p1", ev)
    \/ upgradeToYearly("p1", "u1")
    \/ WebhookStep("p1")
    \/ UpgradeStep("p1")
    \/ Environment
    \/ Finish("p1")

SpecCatalog == InitCatalog /\ [][NextCatalog]_vars

(***************************************************************************)
(* handleStripeWebhook run alone: the collection it leaves when nothing    *)
(* else runs between its load and its save                                 *)
(***************************************************************************)
Assign(coll, u, assigned) == [coll EXCEPT ![u] = save(@, assigned)]

Handled(coll, ev, subscription, clock) ==
    IF ev.type = "checkout.session.completed"
    THEN IF ev.subscription # NULL /\ ev.userId \in DOMAIN coll /\ ev.planId \in DOMAIN plans
         THEN Assign(coll, ev.userId, CheckoutAssignments(ev, subscription, ev.planId))
         ELSE coll
    ELSE IF ev.type = "invoice.payment_succeeded"
    THEN IF ev.subscription # NULL /\ Matching(coll, ev.subscription) # {}
         THEN Assign(coll, CHOOSE u \in Matching(coll, ev.subscription) : TRUE,
                     InvoiceAssignments(subscription))
         ELSE coll
    ELSE IF ev.type = "customer.subscription.updated"
    THEN IF Matching(coll, ev.id) # {}
         THEN Assign(coll, CHOOSE u \in Matching(coll, ev.id) : TRUE,
                     UpdatedAssignments(ev, CHOOSE pl \in NewPlanOf(ev) : TRUE))
         ELSE coll
    ELSE IF ev.type = "customer.subscription.deleted"
    THEN IF Matching(coll, ev.id) # {}
         THEN Assign(coll, CHOOSE u \in Matching(coll, ev.id) : TRUE,
                     DeletedAssignments(ev, clock))
         ELSE coll
    ELSE coll

(***************************************************************************)
(* Claims                                                                  *)
(***************************************************************************)
Quiet == \A p \in Procs : rq[p].pc = "idle"

CustomersOf(u) == {i \in 1..Len(customers) : customers[i] = u}

\* C1 (as claimed; SpecConc): when two createCheckoutSession requests of a user
\* who had no stripeCustomerId overlap and neither has thrown, at most one of
\* them has called stripe.customers.create.
C1_OneCustomerCreation ==
    \A u \in UserIds :
        (/\ since = 2
         /\ base[u].stripeCustomerId = NULL
         /\ \A p \in Procs : /\ rq[p].op = "createCheckoutSession"
                             /\ rq[p].uid = u
                             /\ rq[p].err = NoResponse)
        => Cardinality({p \in Procs : "customers.create" \in rq[p].calls}) <= 1

\* C2 (as claimed; SpecConc): when two provider events have been handled in
\* overlapping requests and both are answered OK, the User collection is the one
\* that handling them one after the other, in one of the two orders, leaves.
C2_Serializable ==
    (/\ since = 2
     /\ \A p \in Procs : /\ rq[p].pc = "done"
                         /\ rq[p].op = "handleStripeWebhook"
                         /\ rq[p].res = HttpStatusCode.OK)
    => LET a == rq["p1"]
           b == rq["p2"]
       IN  \/ users = Handled(Handled(base, a.event, a.subscription, now),
                              b.event, b.subscription, now)
           \/ users = Handled(Handled(base, b.event, b.subscription, now),
                              a.event, a.subscription, now)

\* C3 (as claimed; Spec): a provider event whose signature was verified is
\* answered OK when its handling is over.
C3_VerifiedIsAcknowledged ==
    \A p \in Procs :
        (rq[p].pc = "done" /\ rq[p].op = "handleStripeWebhook" /\ rq[p].verified)
        => rq[p].res = HttpStatusCode.OK

\* C4 (Spec): while the deletion of subscription S is the last change of a
\* user's attachment, the document has no subscription, no plan, no plan type
\* and status canceled, and a 'customer.subscription.updated' for S that is
\* handled then finds no such user and leaves the document as it was.
C4_StaleUpdateAfterDelete ==
    \A u \in UserIds :
        detached[u] # NULL =>
            /\ users[u].stripeSubscriptionId = NULL
            /\ users[u].currentPlanId = NULL
            /\ users[u].currentPlanType = NULL
            /\ users[u].subscriptionStatus = "canceled"
            /\ \A p \in Procs :
                 (/\ rq[p].event.type = "customer.subscription.updated"
                  /\ rq[p].event.id = detached[u])
                 => /\ rq[p].pc = "done"
                    /\ rq[p].res = HttpStatusCode.OK
                    /\ rq[p].uid # u
                    /\ users[u] = base[u]

\* C4's case: the stale update for the deleted subscription has been handled
C4_Witness ==
    /\ detached["u1"] = "sub_1"
    /\ rq["p1"].pc = "done"
    /\ rq["p1"].event.type = "customer.subscription.updated"
    /\ rq["p1"].event.id = "sub_1"
    /\ rq["p1"].event.status = "active"

\* C7 (SpecConc): a document with a stripeSubscriptionId has a subscriptionStatus.
C7_SubscriptionHasStatus ==
    \A u \in UserIds :
        users[u].stripeSubscriptionId # NULL => users[u].subscriptionStatus # NULL

\* C7's case: a subscription is attached and its status has been refreshed
C7_Witness ==
    /\ users["u1"].stripeSubscriptionId = "sub_1"
    /\ users["u1"].subscriptionStatus = "past_due"

\* C8 (as claimed; SpecConc): currentPlanType is the type of the plan that
\* currentPlanId names, and null when currentPlanId is null.
C8_PlanTypeOfPlan ==
    \A u \in UserIds :
        IF users[u].currentPlanId = NULL
        THEN users[u].currentPlanType = NULL
        ELSE /\ users[u].currentPlanId \in DOMAIN plans
             /\ users[u].currentPlanType = plans[users[u].currentPlanId].type

\* C9 (as claimed; Spec): no step changes a stripeCustomerId that is set.
C9_CustomerNeverChanges ==
    [][\A u \in UserIds :
          users[u].stripeCustomerId # NULL
          => users'[u].stripeCustomerId = users[u].stripeCustomerId]_vars

\* C10 (Spec): an upgradeToYearly request of a user whose document, as loaded
\* for the request, has no stripeSubscriptionId, or a status other than active,
\* or a plan type other than Monthly, is over at once with
\* ApiError(BAD_REQUEST), has called the gateway not once and has left the
\* User collection as it was.
C10_UpgradeRefused ==
    \A p \in Procs :
        (/\ rq[p].op = "upgradeToYearly"
         /\ \/ rq[p].doc.stripeSubscriptionId = NULL
            \/ rq[p].doc.subscriptionStatus # "active"
            \/ rq[p].doc.currentPlanType # "Monthly")
        => /\ rq[p].pc = "done"
           /\ rq[p].err = HttpStatusCode.BAD_REQUEST
           /\ rq[p].res = NoResponse
           /\ rq[p].calls = {}
           /\ users = base

\* C10's case: a user with an attached Monthly subscription that is past due
\* has been refused
C10_Witness ==
    /\ rq["p1"].op = "upgradeToYearly"
    /\ rq["p1"].pc = "done"
    /\ rq["p1"].doc.stripeSubscriptionId # NULL
    /\ rq["p1"].doc.currentPlanType = PlanTypes.MONTHLY
    /\ rq["p1"].doc.subscriptionStatus = "past_due"

\* C5 (as claimed; SpecReplay): when a 'checkout.session.completed' event that
\* was answered OK has been delivered once more, with the provider's
\* subscription as it was, the User collection is as the first delivery left it
\* and the second delivery is answered OK.
C5_CheckoutReplay ==
    (/\ replay # NoReplay
     /\ rq["p1"].pc = "done"
     /\ rq["p1"].event = replay.event
     /\ rq["p1"].event.type = "checkout.session.completed"
     /\ rq["p1"].subscription \in {NoSnapshot, replay.subscription})
    => /\ users = replay.users
       /\ rq["p1"].res = HttpStatusCode.OK

\* C6 (as claimed; SpecProvider): when no request is in flight, a user's
\* document names subscription s, and every 'invoice.payment_succeeded' and
\* 'customer.subscription.updated' event the provider has sent for s has been
\* answered OK, the document's subscriptionStatus and subscriptionExpiresAt are
\* the provider's status and period end of s.
C6_Converges ==
    \A u \in UserIds, s \in SubIds :
        (/\ Quiet
         /\ users[u].stripeSubscriptionId = s
         /\ \A e \in outbox :
               \/ e.type = "invoice.payment_succeeded" /\ e.subscription = s
               \/ e.type = "customer.subscription.updated" /\ e.id = s
               => e \in acked)
        => /\ users[u].subscriptionStatus = subs[s].status
           /\ users[u].subscriptionExpiresAt = DateOfSeconds(subs[s].current_period_end)

\* C11 (Spec): an upgradeToYearly request that ends without error has answered
\* OK after one stripe.subscriptions.update that put the price of the active
\* Yearly plan on the item of the user's current price, and no step of the
\* request has changed the User collection: the document still says Monthly.
\* A 'customer.subscription.updated' event whose first item has the price of
\* plan_y, handled for the user of the subscription, leaves currentPlanId
\* plan_y and currentPlanType Yearly.
C11_UpgradeThenUpdated ==
    \A p \in Procs :
        /\ rq[p].pc = "subscriptions.update" => "subscriptions.update" \notin rq[p].calls
        /\ rq[p].op = "upgradeToYearly" => users = base
        /\ (rq[p].op = "upgradeToYearly" /\ rq[p].pc = "done" /\ rq[p].err = NoResponse)
           => /\ rq[p].res = HttpStatusCode.OK
              /\ "subscriptions.update" \in rq[p].calls
              /\ plans[rq[p].plan].type = "Yearly"
              /\ plans[rq[p].plan].isActive
              /\ LET item == FindItem(rq[p].subscription.items, CurrentPriceOf(rq[p].doc))
                 IN  /\ item > 0
                     /\ subs[rq[p].doc.stripeSubscriptionId].items[item]
                            = plans[rq[p].plan].stripePriceId
              /\ users[rq[p].uid].currentPlanType = "Monthly"
        /\ (/\ rq[p].event.type = "customer.subscription.updated"
            /\ rq[p].pc = "done"
            /\ rq[p].res = HttpStatusCode.OK
            /\ rq[p].uid # NULL
            /\ Len(rq[p].event.items) > 0
            /\ rq[p].event.items[1] = "price_y")
           => /\ users[rq[p].uid].currentPlanId = "plan_y"
              /\ users[rq[p].uid].currentPlanType = "Yearly"

\* C11's case: the provider holds the yearly price on sub_1, put there by an
\* upgrade, and the event carrying it has been handled for u1
C11_Witness ==
    /\ subs["sub_1"].items = <<"price_y">>
    /\ rq["p1"].event.type = "customer.subscription.updated"
    /\ rq["p1"].event.id = "sub_1"
    /\ rq["p1"].pc = "done"
    /\ rq["p1"].uid = "u1"
    /\ rq["p1"].doc.currentPlanType = "Monthly"
    /\ users["u1"].currentPlanType = "Yearly"

\* C12 (SpecProvider): after createCheckoutSession has created the customer of
\* a user without billing fields, when the 'checkout.session.completed' event
\* of that user, plan plan_m and subscription S has been handled and answered
\* OK, the document has the customer created for the user, stripeSubscriptionId
\* S, the status of the retrieved subscription as it is, subscriptionExpiresAt
\* its period end in milliseconds, currentPlanId plan_m and currentPlanType
\* Monthly.
C12_CheckoutScenario ==
    \A p \in Procs :
        (/\ rq[p].event.type = "checkout.session.completed"
         /\ rq[p].pc = "done"
         /\ rq[p].res = HttpStatusCode.OK)
        => /\ rq[p].uid = rq[p].event.userId
           /\ rq[p].subscription.id = rq[p].event.subscription
           /\ rq[p].subscription.status \in StripeStatuses
           /\ users[rq[p].uid] =
                [stripeCustomerId |-> rq[p].event.customer,
                 stripeSubscriptionId |-> rq[p].event.subscription,
                 subscriptionStatus |-> rq[p].subscription.status,
                 currentPlanId |-> "plan_m",
                 currentPlanType |-> "Monthly",
                 subscriptionExpiresAt |-> rq[p].subscription.current_period_end * 1000]
           /\ \E i \in CustomersOf(rq[p].uid) : CustomerIds[i] = rq[p].event.customer

\* C12's case: the event has been handled for u1, whose document had only the
\* customer that createCheckoutSession saved, and the provider's status was
\* past_due
C12_Witness ==
    /\ rq["p1"].event.type = "checkout.session.completed"
    /\ rq["p1"].pc = "done"
    /\ rq["p1"].doc.stripeCustomerId = "cus_1"
    /\ rq["p1"].doc.stripeSubscriptionId = NULL
    /\ rq["p1"].doc.subscriptionStatus = NULL
    /\ users["u1"].stripeSubscriptionId = "sub_1"
    /\ users["u1"].subscriptionStatus = "past_due"

\* C13 (Spec): a verified event whose type is none of
\* 'checkout.session.completed', 'invoice.payment_succeeded',
\* 'customer.subscription.updated' and 'customer.subscription.deleted' is
\* answered OK at once: no error, no gateway call, no user loaded, and the User
\* collection as it was when the event arrived.
C13_UnknownEvent ==
    \A p \in Procs :
        (/\ rq[p].verified
         /\ rq[p].event.type \notin {"checkout.session.completed",
                                     "invoice.payment_succeeded",
                                     "customer.subscription.updated",
                                     "customer.subscription.deleted"})
        => /\ rq[p].pc = "done"
           /\ rq[p].res = HttpStatusCode.OK
           /\ rq[p].err = NoResponse
           /\ rq[p].calls = {}
           /\ rq[p].uid = NULL
           /\ rq[p].delta = NoDelta
           /\ users = base

\* C13's case: an event of another type has been handled while u1 has billing
\* fields that could have been changed
C13_Witness ==
    /\ rq["p1"].event = OtherEvent
    /\ rq["p1"].pc = "done"
    /\ users["u1"].stripeSubscriptionId = "sub_1"

\* C14 (Spec): a webhook request whose signature stripe.webhooks.constructEvent
\* rejects is answered BAD_REQUEST at once: no event is dispatched, no gateway
\* call is made, no user is loaded and the User collection is as it was when
\* the request arrived.
C14_VerificationFailure ==
    \A p \in Procs :
        (rq[p].op = "handleStripeWebhook" /\ ~rq[p].verified)
        => /\ rq[p].pc = "done"
           /\ rq[p].res = HttpStatusCode.BAD_REQUEST
           /\ rq[p].err = NoResponse
           /\ rq[p].event = NoEvent
           /\ rq[p].calls = {}
           /\ rq[p].uid = NULL
           /\ rq[p].delta = NoDelta
           /\ users = base

\* C14's case: a request with a bad signature has been answered while u1 has
\* billing fields that could have been changed
C14_Witness ==
    /\ rq["p1"].op = "handleStripeWebhook"
    /\ ~rq["p1"].verified
    /\ rq["p1"].pc = "done"
    /\ users["u1"].stripeSubscriptionId = "sub_1"

\* C15 (as claimed; SpecConc): a step of a createCheckoutSession request leaves
\* stripeSubscriptionId, subscriptionStatus, currentPlanId, currentPlanType and
\* subscriptionExpiresAt of every document as they are, and changes a
\* stripeCustomerId only if the stored value was null.
C15_CheckoutFrame ==
    [][\A p \in Procs :
          (rq[p].op = "createCheckoutSession" /\ rq'[p] # rq[p])
          => \A u \in UserIds :
                /\ \A f \in Fields \ {"stripeCustomerId"} : users'[u][f] = users[u][f]
                /\ users'[u].stripeCustomerId # users[u].stripeCustomerId
                   => users[u].stripeCustomerId = NULL]_vars

\* C16 (Spec): when a createCheckoutSession request that has created a customer
\* ends in the catch block of the session creation, the document already has
\* that customer id; and a request whose req.user has a stripeCustomerId never
\* calls stripe.customers.create and goes on with the stored id.
C16_RetryReusesCustomer ==
    \A p \in Procs :
        rq[p].op = "createCheckoutSession" =>
            /\ (/\ rq[p].pc = "done"
                /\ rq[p].err = HttpStatusCode.INTERNAL_SERVER_ERROR
                /\ "customers.create" \in rq[p].calls)
               => /\ rq[p].customer # NULL
                  /\ users[rq[p].uid].stripeCustomerId = rq[p].customer
            /\ rq[p].doc = base[rq[p].uid]
            /\ rq[p].doc.stripeCustomerId # NULL
               => /\ "customers.create" \notin rq[p].calls
                  /\ rq[p].customer = rq[p].doc.stripeCustomerId
                  /\ users[rq[p].uid].stripeCustomerId = rq[p].customer

\* C16's case: a later request of u1 has asked for a session with the one
\* customer ever created, without creating another
C16_Witness ==
    /\ customers = <<"u1">>
    /\ rq["p1"].op = "createCheckoutSession"
    /\ rq["p1"].pc = "done"
    /\ rq["p1"].doc.stripeCustomerId = "cus_1"
    /\ rq["p1"].calls = {"sessions.create"}
    /\ users["u1"].stripeCustomerId = "cus_1"

\* C17 (as claimed; SpecReplay): when an 'invoice.payment_succeeded',
\* 'customer.subscription.updated' or 'customer.subscription.deleted' event
\* that was answered OK has been delivered once more, with the provider's
\* subscription as it was, the User collection is as the first delivery left
\* it, and the second delivery has ended without error and is answered OK.
C17_EventReplay ==
    (/\ replay # NoReplay
     /\ rq["p1"].pc = "done"
     /\ rq["p1"].event = replay.event
     /\ rq["p1"].event.type \in {"invoice.payment_succeeded",
                                 "customer.subscription.updated",
                                 "customer.subscription.deleted"}
     /\ rq["p1"].subscription \in {NoSnapshot, replay.subscription})
    => /\ users = replay.users
       /\ rq["p1"].err = NoResponse
       /\ rq["p1"].res = HttpStatusCode.OK

\* C18 (SpecReplay): when the handler of a 'customer.subscription.deleted'
\* event for subscription S has loaded the user whose stripeSubscriptionId is
\* S, the document it is about to save has stripeSubscriptionId,
\* currentPlanId and currentPlanType null, subscriptionStatus canceled,
\* subscriptionExpiresAt the event's period end in milliseconds, or the clock
\* of that moment when the event has none, and the stripeCustomerId it was
\* loaded with; and the save that ends the handling stores that document.
C18_Deleted ==
    [][\A p \in Procs :
          /\ (/\ rq[p].pc = "idle"
              /\ rq'[p].event.type = "customer.subscription.deleted"
              /\ rq'[p].uid # NULL)
             => /\ users[rq'[p].uid].stripeSubscriptionId = rq'[p].event.id
                /\ rq'[p].doc = users[rq'[p].uid]
                /\ save(rq'[p].doc, rq'[p].delta) =
                     [stripeCustomerId |-> users[rq'[p].uid].stripeCustomerId,
                      stripeSubscriptionId |-> NULL,
                      subscriptionStatus |-> "canceled",
                      currentPlanId |-> NULL,
                      currentPlanType |-> NULL,
                      subscriptionExpiresAt |->
                         IF rq'[p].event.current_period_end # NoDate
                         THEN rq'[p].event.current_period_end * 1000
                         ELSE now]
          /\ (/\ rq[p].event.type = "customer.subscription.deleted"
              /\ rq[p].pc = "save"
              /\ rq'[p].pc = "done"
              /\ rq'[p].res = HttpStatusCode.OK)
             => /\ users'[rq[p].uid] = save(rq[p].doc, rq[p].delta)
                /\ \A u \in UserIds \ {rq[p].uid} : users'[u] = users[u]]_vars

\* C18's case: a deletion without period end has been handled for u1 at time 2
\* and the customer id is still there
C18_Witness ==
    /\ rq["p1"].event.type = "customer.subscription.deleted"
    /\ rq["p1"].event.current_period_end = NoDate
    /\ rq["p1"].pc = "done"
    /\ rq["p1"].res = HttpStatusCode.OK
    /\ rq["p1"].uid = "u1"
    /\ rq["p1"].doc.subscriptionExpiresAt = 1000
    /\ users["u1"].subscriptionExpiresAt = 2
    /\ users["u1"].subscriptionStatus = "canceled"
    /\ users["u1"].stripeCustomerId = "cus_1"

\* C19 (Spec): when an 'invoice.payment_succeeded' event with subscription S has
\* been handled and answered OK, the user it loaded is one whose
\* stripeSubscriptionId is S, that document differs from what it was when the
\* event arrived in subscriptionStatus and subscriptionExpiresAt only, which
\* are the status and the period end in milliseconds of the retrieved
\* subscription, and every other document is as it was; when no user has S
\* the whole collection is as it was.
C19_InvoiceFrame ==
    \A p \in Procs :
        (/\ rq[p].event.type = "invoice.payment_succeeded"
         /\ rq[p].pc = "done"
         /\ rq[p].res = HttpStatusCode.OK)
        => IF rq[p].uid = NULL
           THEN users = base
           ELSE /\ rq[p].subscription.id = rq[p].event.subscription
                /\ base[rq[p].uid].stripeSubscriptionId = rq[p].event.subscription
                /\ users[rq[p].uid] =
                     [base[rq[p].uid] EXCEPT
                        !.subscriptionStatus = rq[p].subscription.status,
                        !.subscriptionExpiresAt =
                            rq[p].subscription.current_period_end * 1000]
                /\ \A u \in UserIds \ {rq[p].uid} : users[u] = base[u]

\* C19's case: the invoice event has been handled for u1 and has changed the
\* status and the expiry of a document that has a customer, a plan and a type
C19_Witness ==
    /\ rq["p1"].event.type = "invoice.payment_succeeded"
    /\ rq["p1"].pc = "done"
    /\ rq["p1"].uid = "u1"
    /\ base["u1"].subscriptionStatus = "active"
    /\ base["u1"].subscriptionExpiresAt = 1000
    /\ users["u1"].subscriptionStatus = "past_due"
    /\ users["u1"].subscriptionExpiresAt = 2000
    /\ users["u1"].currentPlanType = "Monthly"
    /\ users["u1"].stripeCustomerId # NULL

\* C20 (Spec): when a 'customer.subscription.updated' event for the
\* subscription of a user has been handled and answered OK, the document has
\* the event's status and its period end in milliseconds; if a plan has the
\* price of the event's first item, currentPlanId is that plan and
\* currentPlanType its type, whatever the other items are, and otherwise the
\* two plan fields are as they were; stripeSubscriptionId and stripeCustomerId
\* are as they were.
C20_UpdatedPlan ==
    \A p \in Procs :
        (/\ rq[p].event.type = "customer.subscription.updated"
         /\ rq[p].pc = "done"
         /\ rq[p].res = HttpStatusCode.OK
         /\ rq[p].uid # NULL)
        => LET e == rq[p].event
               was == base[rq[p].uid]
               user == users[rq[p].uid]
           IN  /\ was.stripeSubscriptionId = e.id
               /\ user.stripeSubscriptionId = e.id
               /\ user.stripeCustomerId = was.stripeCustomerId
               /\ user.subscriptionStatus = e.status
               /\ user.subscriptionExpiresAt = e.current_period_end * 1000
               /\ IF /\ Len(e.items) > 0
                     /\ \E pl \in DOMAIN plans : plans[pl].stripePriceId = e.items[1]
                  THEN /\ user.currentPlanId \in DOMAIN plans
                       /\ plans[user.currentPlanId].stripePriceId = e.items[1]
                       /\ user.currentPlanType = plans[user.currentPlanId].type
                  ELSE /\ user.currentPlanId = was.currentPlanId
                       /\ user.currentPlanType = was.currentPlanType

\* C20's case: u1 was on plan_m, the event's first item has the price of
\* plan_y and its second the price of plan_m
C20_Witness ==
    /\ rq["p1"].event.type = "customer.subscription.updated"
    /\ rq["p1"].event.items = <<"price_y", "price_m">>
    /\ rq["p1"].event.status = "past_due"
    /\ rq["p1"].pc = "done"
    /\ rq["p1"].uid = "u1"
    /\ base["u1"].currentPlanId = "plan_m"
    /\ users["u1"].currentPlanId = "plan_y"
    /\ users["u1"].currentPlanType = "Yearly"
    /\ users["u1"].subscriptionStatus = "past_due"

\* C21 (Spec): when the handler of a verified event has looked for the entity
\* it needs and there is none (a 'checkout.session.completed' whose subscription
\* was retrieved and whose metadata names no user or no plan; an
\* 'invoice.payment_succeeded' whose subscription was retrieved and is on no
\* document; a 'customer.subscription.updated' or 'customer.subscription.deleted'
\* whose subscription is on no document), the event is answered OK without
\* error, nothing is saved and the User collection is as it was.
C21_MissingEntity ==
    \A p \in Procs :
        (/\ rq[p].verified
         /\ rq[p].pc \notin {"idle", "checkout", "invoice"}
         /\ \/ /\ rq[p].event.type = "checkout.session.completed"
               /\ rq[p].subscription # NoSnapshot
               /\ \/ rq[p].event.userId \notin DOMAIN base
                  \/ rq[p].event.planId \notin DOMAIN plans
            \/ /\ rq[p].event.type = "invoice.payment_succeeded"
               /\ rq[p].subscription # NoSnapshot
               /\ Matching(base, rq[p].event.subscription) = {}
            \/ /\ rq[p].event.type \in {"customer.subscription.updated",
                                        "customer.subscription.deleted"}
               /\ Matching(base, rq[p].event.id) = {})
        => /\ rq[p].pc = "done"
           /\ rq[p].res = HttpStatusCode.OK
           /\ rq[p].err = NoResponse
           /\ rq[p].uid = NULL
           /\ rq[p].delta = NoDelta
           /\ users = base

\* C21's case: a checkout event of u1 that names a missing plan has been
\* dropped after its subscription was retrieved
C21_Witness ==
    /\ rq["p1"].event.type = "checkout.session.completed"
    /\ rq["p1"].event.userId = "u1"
    /\ rq["p1"].event.planId = MissingPlan
    /\ rq["p1"].subscription.id = "sub_1"
    /\ rq["p1"].pc = "done"
    /\ rq["p1"].res = HttpStatusCode.OK

\* C22 (SpecCatalog): an upgradeToYearly request of a user who passes the test
\* of line 233 never changes the User collection, and: with no active Yearly
\* plan it ends with ApiError(NOT_FOUND) before any gateway call; with an
\* active Yearly plan without stripePriceId it ends with
\* ApiError(INTERNAL_SERVER_ERROR) before any gateway call; when the retrieved
\* subscription has no item with the price of the user's current plan it ends
\* with ApiError(INTERNAL_SERVER_ERROR) and stripe.subscriptions.update is not
\* called; and when it ends without error the update was called and the first
\* item with that price has the Yearly plan's price.
C22_UpgradeErrors ==
    \A p \in Procs :
        (/\ rq[p].op = "upgradeToYearly"
         /\ rq[p].doc.stripeSubscriptionId # NULL
         /\ rq[p].doc.subscriptionStatus = "active"
         /\ rq[p].doc.currentPlanType = "Monthly")
        => LET yearly == {id \in DOMAIN plans : plans[id].type = "Yearly" /\ plans[id].isActive}
               items == rq[p].subscription.items
               price == plans[rq[p].doc.currentPlanId].stripePriceId
               matching == {i \in 1..Len(items) : items[i] = price}
           IN  /\ users = base
               /\ rq[p].err # NoResponse => rq[p].res = NoResponse
               /\ yearly = {}
                  => /\ rq[p].pc = "done"
                     /\ rq[p].err = HttpStatusCode.NOT_FOUND
                     /\ rq[p].calls = {}
               /\ (yearly # {} /\ \A id \in yearly : plans[id].stripePriceId = NULL)
                  => /\ rq[p].pc = "done"
                     /\ rq[p].err = HttpStatusCode.INTERNAL_SERVER_ERROR
                     /\ rq[p].calls = {}
               /\ (rq[p].subscription # NoSnapshot /\ matching = {})
                  => /\ rq[p].pc = "done"
                     /\ rq[p].err = HttpStatusCode.INTERNAL_SERVER_ERROR
                     /\ rq[p].calls = {"subscriptions.retrieve"}
               /\ "subscriptions.update" \in rq[p].calls
                  => /\ rq[p].subscription # NoSnapshot
                     /\ matching # {}
               /\ (rq[p].pc = "done" /\ rq[p].err = NoResponse)
                  => /\ rq[p].res = HttpStatusCode.OK
                     /\ "subscriptions.update" \in rq[p].calls
                     /\ \E i \in matching :
                           /\ \A j \in matching : i <= j
                           /\ \E id \in yearly :
                                 subs[rq[p].doc.stripeSubscriptionId].items[i]
                                     = plans[id].stripePriceId

\* C22's case: u1, active on a Monthly plan, has asked for the upgrade while
\* the Yearly plan is inactive
C22_Witness ==
    /\ rq["p1"].op = "upgradeToYearly"
    /\ rq["p1"].pc = "done"
    /\ rq["p1"].doc.subscriptionStatus = "active"
    /\ rq["p1"].doc.currentPlanType = "Monthly"
    /\ ~plans["plan_y"].isActive
    /\ rq["p1"].err = HttpStatusCode.NOT_FOUND

\* C23 (as claimed; Spec): while the deletion of subscription S is the last
\* change of a user's attachment, no step sets the document's
\* stripeSubscriptionId back to S, and none sets currentPlanId unless it
\* attaches another subscription.
C23_NoResurrection ==
    [][\A u \in UserIds :
          detached[u] # NULL
          => /\ users'[u].stripeSubscriptionId # detached[u]
             /\ users'[u].currentPlanId # NULL
                => users'[u].stripeSubscriptionId # NULL]_vars

\* C24 (SpecProvider): when the 'checkout.session.completed' event of
\* subscription S or the 'invoice.payment_succeeded' event of S has been handled
\* and answered OK and the other one was answered OK before, the user's
\* document has stripeSubscriptionId S and the status and the period end, in
\* milliseconds, of the subscription as this handling retrieved it; and an
\* invoice event handled while no document has S is answered OK with the User
\* collection as it was.
C24_FirstPurchaseOrder ==
    \A p \in Procs :
        (rq[p].pc = "done" /\ rq[p].res = HttpStatusCode.OK)
        => /\ (/\ rq[p].event.type = "invoice.payment_succeeded"
               /\ \A u \in UserIds :
                     base[u].stripeSubscriptionId # rq[p].event.subscription)
              => (rq[p].uid = NULL /\ users = base)
           /\ \A other \in acked :
                (\/ /\ rq[p].event.type = "invoice.payment_succeeded"
                    /\ other.type = "checkout.session.completed"
                 \/ /\ rq[p].event.type = "checkout.session.completed"
                    /\ other.type = "invoice.payment_succeeded")
                => (other.subscription = rq[p].event.subscription
                    => \E u \in UserIds :
                         /\ u = (IF other.type = "checkout.session.completed"
                                 THEN other.userId ELSE rq[p].event.userId)
                         /\ users[u].stripeSubscriptionId = rq[p].event.subscription
                         /\ rq[p].subscription.id = rq[p].event.subscription
                         /\ users[u].subscriptionStatus = rq[p].subscription.status
                         /\ users[u].subscriptionExpiresAt =
                                rq[p].subscription.current_period_end * 1000)

\* C24's case: the invoice event of sub_1 was answered first, while u1 had no
\* subscription, and the checkout event has now been handled
C24_Witness ==
    /\ rq["p1"].event.type = "checkout.session.completed"
    /\ rq["p1"].pc = "done"
    /\ rq["p1"].res = HttpStatusCode.OK
    /\ base["u1"].stripeSubscriptionId = NULL
    /\ InvoicePaid("sub_1") \in acked
    /\ users["u1"].stripeSubscriptionId = "sub_1"
    /\ users["u1"].subscriptionStatus = "active"

\* C25 (Spec): a webhook request that has loaded a user to change has sent no
\* response while its save is pending, and the step in which it answers OK is
\* the end of that save: after it the stored document has every path the
\* handler modified, with the value the handler assigned.
C25_AckAfterSave ==
    [][\A p \in Procs :
          /\ rq[p].pc = "save" => (rq[p].res = NoResponse /\ rq[p].err = NoResponse)
          /\ (/\ rq'[p].op = "handleStripeWebhook"
              /\ rq'[p].uid # NULL
              /\ rq[p].res # HttpStatusCode.OK
              /\ rq'[p].res = HttpStatusCode.OK)
             => /\ rq[p].pc = "save"
                /\ rq'[p].delta = rq[p].delta
                /\ \A f \in DOMAIN rq[p].delta :
                      users'[rq'[p].uid][f] = rq[p].delta[f]]_vars

\* C25's case: a deletion that modified the document of u1 has been answered OK
C25_Witness ==
    /\ rq["p1"].event.type = "customer.subscription.deleted"
    /\ rq["p1"].pc = "done"
    /\ rq["p1"].res = HttpStatusCode.OK
    /\ rq["p1"].uid = "u1"
    /\ "stripeSubscriptionId" \in DOMAIN rq["p1"].delta
    /\ users["u1"].stripeSubscriptionId = NULL

====
